---- MODULE Spec2Model ----
(***************************************************************************)
(* A model of the brainfuck interpreter of src/main.rs: the tape (Memory), *)
(* the recursive evaluator (eval / apply / Operation::eval_loop) and the   *)
(* bracket matcher (find_next).                                            *)
(*                                                                         *)
(* The source text is a Rust &str, i.e. a sequence of UTF-8 bytes.  eval   *)
(* indexes it by byte (&code[i..i+1]) while find_next counts characters    *)
(* (code[i..].chars().enumerate()), so the model keeps the source as a     *)
(* sequence of bytes: the eight operation characters, one inert ASCII      *)
(* character "x", and the two bytes "C3" "A9" of the character U+00E9.     *)
(*                                                                         *)
(* The activations of eval form the call stack `stack`; each holds its     *)
(* own slice `code`, its index `i` and, while it is inside the `while` of  *)
(* the '[' arm, the `end` that find_next returned.                         *)
(*                                                                         *)
(* memory.pointer is a usize.  It is kept as the representative p of its   *)
(* residue modulo 2^64 that lies nearest 0: p >= 0 is the value p, p < 0   *)
(* is the value 2^64 + p (so -1 is usize::MAX).  Arithmetic overflow       *)
(* panics when the build has overflow checks (cargo's dev profile) and     *)
(* wraps when it has not (the release profile): overflowChecks.            *)
(***************************************************************************)
EXTENDS Integers, Sequences, FiniteSets

\* ---------------------------------------------------------------- bounds
\* Longest source text, in bytes.
MaxLen == 4
\* Length of the tape handed to Memory::new (main passes CAPACITY = 30000).
TapeLen == 2
\* Longest run of a text of at most MaxLen bytes, in steps of the evaluator.
MaxSteps == 9
\* Largest factor of the multiplication programs.
MaxFactor == 16
\* Largest start value of the clearing programs.
MaxClear == 4
\* Most items in the body of a loop program.
MaxItems == 2

\* ------------------------------------------------------ program constants
\* data: Vec<u16>: a cell holds a value in 0 .. 2^16 - 1.
CellMod == 65536
\* `as u8`: the low 8 bits of the cell.
ByteMod == 256

\* ------------------------------------------------------------ source text
Lead == "C3"
Cont == "A9"
OpBytes == {">", "<", "+", "-", ".", ",", "[", "]"}
Bytes == OpBytes \cup {"x", Lead, Cont}

\* str: valid UTF-8.  A lead byte is followed by its continuation byte and a
\* continuation byte follows a lead byte.
IsUtf8(s) ==
    \A k \in 1..Len(s) :
        /\ (s[k] = Lead => (k < Len(s) /\ s[k + 1] = Cont))
        /\ (s[k] = Cont => (k > 1 /\ s[k - 1] = Lead))

\* The texts main can hand to eval.  main trims surrounding whitespace off the
\* file's text; no byte of Bytes is whitespace, so trimming leaves these as
\* they are.  First, every text of at most MaxLen bytes.
ShortSources == {s \in UNION {[1..n -> Bytes] : n \in 0..MaxLen} : IsUtf8(s)}

\* n times the byte c.
Rep(c, n) == [k \in 1..n |-> c]

\* a "+", then "[", ">", b "+", "<", "-", "]", then ">" and ".": a times b.
MulProgram(a, b) ==
    Rep("+", a) \o <<"[", ">">> \o Rep("+", b) \o <<"<", "-", "]", ">", ".">>

\* v "+", then "[-]": set a cell to v and clear it.
ClearProgram(v) == Rep("+", v) \o <<"[", "-", "]">>

\* Loops, nested or with characters of two bytes in them: an optional "+",
\* then "[", up to MaxItems items, "]".
BodyItems == {<<"x">>, <<"-">>, <<Lead, Cont>>, <<"[", "]">>,
              <<"[", Lead, Cont, "]">>}

RECURSIVE Bodies(_)
Bodies(n) ==
    IF n = 0 THEN {<<>>}
    ELSE Bodies(n - 1) \cup {b \o it : b \in Bodies(n - 1), it \in BodyItems}

LoopPrograms ==
    {pre \o <<"[">> \o b \o <<"]">> : pre \in {<<>>, <<"+">>},
                                      b \in Bodies(MaxItems)}

\* A loop program, then "+" and a "[" that nothing closes.
UnclosedPrograms == {l \o <<"+", "[">> : l \in LoopPrograms}

LongSources ==
    {MulProgram(a, b) : a \in 0..MaxFactor, b \in 0..MaxFactor}
    \cup {ClearProgram(v) : v \in 0..MaxClear}
    \cup LoopPrograms
    \cup UnclosedPrograms

\* The texts of the runs: every short text, and the longer programs above.
Sources == ShortSources \cup LongSources

\* A run of a multiplication program of factors up to MaxFactor ends within
\* this many steps.
LongSteps == (MaxFactor + 2) * (MaxFactor + 7)

\* The lines standard input can deliver (a line ends with its newline, 10).
InputLines == {<<10>>, <<65, 66, 10>>}

\* What read_line can come back with: a line, nothing (end of file), or an
\* error (the bytes read are not UTF-8).
ReadLine(l) == [kind |-> "line", bytes |-> l]
ReadEof == [kind |-> "eof", bytes |-> <<>>]
ReadErr == [kind |-> "err", bytes |-> <<>>]

\* str::is_char_boundary, as the slicing operators use it (0-based index).
IsCharBoundary(code, k) ==
    \/ k = 0
    \/ k = Len(code)
    \/ (k > 0 /\ k < Len(code) /\ code[k + 1] # Cont)

\* &code[a..b] does not panic.
SliceOk(code, a, b) ==
    /\ a <= b
    /\ b <= Len(code)
    /\ IsCharBoundary(code, a)
    /\ IsCharBoundary(code, b)

\* &code[a..b] (0-based, b exclusive).
Slice(code, a, b) == SubSeq(code, a + 1, b)

\* str::chars: the characters of a byte string; the two bytes of U+00E9 are
\* one character.
RECURSIVE Chars(_)
Chars(s) ==
    IF s = <<>> THEN <<>>
    ELSE IF Head(s) = Lead /\ Len(s) >= 2
         THEN <<"e9">> \o Chars(Tail(Tail(s)))
         ELSE <<Head(s)>> \o Chars(Tail(s))

\* Option<usize>
None == <<>>
Some(x) == <<x>>

\* The `for (p, c) in code[i..].chars().enumerate()` loop of find_next from
\* its p-th iteration on, with the bracket stack `st`.
RECURSIVE FindLoop(_, _, _, _)
FindLoop(cs, p, i, st) ==
    IF p >= Len(cs) THEN None
    ELSE IF cs[p + 1] = "[" THEN FindLoop(cs, p + 1, i, Append(st, 1))
    ELSE IF cs[p + 1] = "]"
         THEN IF Len(st) = 1 THEN Some(p + i)
              ELSE FindLoop(cs, p + 1, i,
                            IF st = <<>> THEN st ELSE SubSeq(st, 1, Len(st) - 1))
    ELSE FindLoop(cs, p + 1, i, st)

\* find_next with the end of the text taken for the closing bracket.
find_next_eof(code, i) ==
    LET found == FindLoop(Chars(Slice(code, i, Len(code))), 0, i, <<>>)
    IN  IF found = None THEN Some(Len(code)) ELSE found

\* find_next(code, i): i is the index of the opening bracket.
find_next(code, i) == FindLoop(Chars(Slice(code, i, Len(code))), 0, i, <<>>)

\* ------------------------------------------------------------------ state
VARIABLES
    source,         \* main's `code`: the trimmed text of the file
    overflowChecks, \* the build panics on arithmetic overflow
    memory,         \* Memory: [pointer, data]
    stack,          \* the activations of eval, innermost last
    outcome,        \* "running", "returned" or the panic that ended the run
    stdout,         \* the characters printed so far (their code points)
    consumed,       \* the lines read from standard input so far
    stdinEof,       \* standard input has reported end of file
    visited,        \* the positions eval has matched on: <<depth, i>>
    steps           \* steps taken

vars == <<source, overflowChecks, memory, stack, outcome, stdout, consumed,
          stdinEof, visited, steps>>

Panics == {"overflow", "index out of bounds", "mismatch brackets",
           "no byte read", "Unable to read", "char boundary"}

\* Memory::new
Memory_new(capacity) ==
    [pointer |-> 0, data |-> [k \in 0..(capacity - 1) |-> 0]]

\* An activation of eval on `code`: i = 0, not inside a loop.
Frame(code) == [code |-> code, i |-> 0, inWhile |-> FALSE, end |-> 0]

Init ==
    /\ source \in Sources
    /\ overflowChecks \in BOOLEAN
    /\ memory = Memory_new(TapeLen)
    /\ stack = <<Frame(source)>>
    /\ outcome = "running"
    /\ stdout = <<>>
    /\ consumed = <<>>
    /\ stdinEof = FALSE
    /\ visited = <<>>
    /\ steps = 0

\* ---------------------------------------------------------------- helpers
Depth == Len(stack)
Top == stack[Depth]
\* The steps a run may take.
StepLimit == IF Len(source) <= MaxLen THEN MaxSteps ELSE LongSteps

\* The run goes on even after a panic.
RunningAfterPanic == outcome # "returned" /\ steps < StepLimit

Running == outcome = "running" /\ steps < StepLimit

\* memory.data[memory.pointer] is inside the vector.
InBounds(m) == m.pointer \in DOMAIN m.data

\* The result of an operation: the memory it leaves, or the panic it raises.
Ok(m) == [panic |-> "", memory |-> m]
Panic(msg, m) == [panic |-> msg, memory |-> m]

\* ------------------------------------------------------------- operations
\* Operation::inc_pointer: memory.pointer += 1
inc_pointer(m) ==
    IF m.pointer = -1 /\ overflowChecks THEN Panic("overflow", m)
    ELSE Ok([m EXCEPT !.pointer = @ + 1])

\* Operation::dec_pointer: memory.pointer -= 1
dec_pointer(m) ==
    IF m.pointer = 0 /\ overflowChecks THEN Panic("overflow", m)
    ELSE Ok([m EXCEPT !.pointer = @ - 1])

\* Operation::inc_value: memory.data[memory.pointer] += 1
inc_value(m) ==
    IF ~InBounds(m) THEN Panic("index out of bounds", m)
    ELSE IF m.data[m.pointer] = CellMod - 1 /\ overflowChecks
         THEN Panic("overflow", m)
    ELSE Ok([m EXCEPT !.data[m.pointer] = (@ + 1) % CellMod])

\* Operation::dec_value: memory.data[memory.pointer] -= 1
dec_value(m) ==
    IF ~InBounds(m) THEN Panic("index out of bounds", m)
    ELSE IF m.data[m.pointer] = 0 /\ overflowChecks
         THEN Panic("overflow", m)
    ELSE Ok([m EXCEPT !.data[m.pointer] = (@ - 1) % CellMod])

\* The cell printed without the cast to u8.
PrintedCharWide(m) == m.data[m.pointer]

\* `memory.data[memory.pointer] as u8 as char`: the character print! writes.
PrintedChar(m) == m.data[m.pointer] % ByteMod

\* Operation::scan adding the byte read to the cell.
scan_add(m, rd) ==
    IF rd.kind = "err" THEN Panic("Unable to read", m)
    ELSE IF rd.bytes = <<>> THEN Panic("no byte read", m)
    ELSE IF ~InBounds(m) THEN Panic("index out of bounds", m)
    ELSE Ok([m EXCEPT !.data[m.pointer] = (@ + Head(rd.bytes)) % CellMod])

\* Operation::scan storing 0 when no byte was read.
scan_zero(m, rd) ==
    IF rd.kind = "err" THEN Panic("Unable to read", m)
    ELSE IF ~InBounds(m) THEN Panic("index out of bounds", m)
    ELSE Ok([m EXCEPT !.data[m.pointer] =
                 IF rd.bytes = <<>> THEN 0 ELSE Head(rd.bytes)])

\* Operation::scan, for what read_line came back with: expect("Unable to
\* read") on an error, input.bytes().nth(0).expect("no byte read") on an
\* empty input, then the store of the first byte.
scan(m, rd) ==
    IF rd.kind = "err" THEN Panic("Unable to read", m)
    ELSE IF rd.bytes = <<>> THEN Panic("no byte read", m)
    ELSE IF ~InBounds(m) THEN Panic("index out of bounds", m)
    ELSE Ok([m EXCEPT !.data[m.pointer] = Head(rd.bytes)])

\* What the next read_line can come back with.
Reads ==
    {ReadEof} \cup
    (IF stdinEof THEN {} ELSE {ReadErr} \cup {ReadLine(l) : l \in InputLines})

\* ------------------------------------------------------------------- eval
\* eval is at the top of its `while i < code.len()` with i inside the text.
AtMatch ==
    /\ Running
    /\ ~Top.inWhile
    /\ Top.i < Len(Top.code)

\* The scrutinee &code[i..i+1] of the match.
Scrutinee == Top.code[Top.i + 1]

\* The match selects the arm of character c.
Matches(c) ==
    /\ AtMatch
    /\ SliceOk(Top.code, Top.i, Top.i + 1)
    /\ Scrutinee = c

\* The index moved on by two.
AdvanceTwo(st) == [st EXCEPT ![Len(st)].i = @ + 2]

\* `i += 1` at the end of the loop body.
Advance(st) == [st EXCEPT ![Len(st)].i = @ + 1]

\* `i += end - start + 1; continue` (start is the frame's i).
SkipLoop(st) ==
    [st EXCEPT ![Len(st)].i = @ + (st[Len(st)].end - st[Len(st)].i + 1),
               ![Len(st)].inWhile = FALSE]

Visit == visited' = Append(visited, <<Depth, Top.i>>)

\* apply(operation, code, memory) for the operations that only touch memory.
ApplyResult(r) ==
    /\ memory' = r.memory
    /\ IF r.panic # ""
       THEN outcome' = r.panic /\ stack' = stack
       ELSE outcome' = outcome /\ stack' = Advance(stack)
    /\ steps' = steps + 1

\* ">" arm
IncPointer ==
    /\ Matches(">")
    /\ Visit
    /\ ApplyResult(inc_pointer(memory))
    /\ UNCHANGED <<source, overflowChecks, stdout, consumed, stdinEof>>

\* "<" arm
DecPointer ==
    /\ Matches("<")
    /\ Visit
    /\ ApplyResult(dec_pointer(memory))
    /\ UNCHANGED <<source, overflowChecks, stdout, consumed, stdinEof>>

\* "+" arm
IncValue ==
    /\ Matches("+")
    /\ Visit
    /\ ApplyResult(inc_value(memory))
    /\ UNCHANGED <<source, overflowChecks, stdout, consumed, stdinEof>>

\* "-" arm
DecValue ==
    /\ Matches("-")
    /\ Visit
    /\ ApplyResult(dec_value(memory))
    /\ UNCHANGED <<source, overflowChecks, stdout, consumed, stdinEof>>

\* "." arm: Operation::print
PrintChar ==
    /\ Matches(".")
    /\ Visit
    /\ IF InBounds(memory)
       THEN /\ stdout' = Append(stdout, PrintedChar(memory))
            /\ stack' = Advance(stack)
            /\ outcome' = outcome
       ELSE /\ outcome' = "index out of bounds"
            /\ UNCHANGED <<stdout, stack>>
    /\ steps' = steps + 1
    /\ UNCHANGED <<source, overflowChecks, memory, consumed, stdinEof>>

\* "," arm: Operation::scan.
Scan ==
    /\ Matches(",")
    /\ Visit
    /\ \E rd \in Reads :
          /\ consumed' = IF rd.kind = "line" THEN Append(consumed, rd.bytes)
                         ELSE consumed
          /\ stdinEof' = (stdinEof \/ rd.kind = "eof")
          /\ ApplyResult(scan(memory, rd))
    /\ UNCHANGED <<source, overflowChecks, stdout>>

\* "[" arm up to its `while`: find_next, or the panic on None.
EnterLoop(st, found) ==
    [st EXCEPT ![Len(st)].inWhile = TRUE, ![Len(st)].end = found[1]]

Bracket ==
    /\ Matches("[")
    /\ Visit
    /\ LET found == find_next(Top.code, Top.i) IN
         IF found = None
         THEN outcome' = "mismatch brackets" /\ stack' = stack
         ELSE outcome' = outcome /\ stack' = EnterLoop(stack, found)
    /\ steps' = steps + 1
    /\ UNCHANGED <<source, overflowChecks, memory, stdout, consumed, stdinEof>>

\* eval is at the condition of `while memory.data[memory.pointer] != 0`.
AtWhile == Running /\ Top.inWhile

\* The condition reads outside the vector.
WhilePanic ==
    /\ AtWhile
    /\ ~InBounds(memory)
    /\ outcome' = "index out of bounds"
    /\ steps' = steps + 1
    /\ UNCHANGED <<source, overflowChecks, memory, stack, stdout, consumed,
                   stdinEof, visited>>

\* The slice without the first character of the loop's interior.
LoopInteriorShort(code, a, b) == Slice(code, a + 2, b)

\* The slice Operation::eval_loop evaluates for Operation::Loop(a, b).
LoopInterior(code, a, b) == Slice(code, a + 1, b)

\* The condition holds: apply(Loop(start, end)) calls eval_loop, which calls
\* eval on &code[a+1..b].
LoopBody ==
    /\ AtWhile
    /\ InBounds(memory)
    /\ memory.data[memory.pointer] # 0
    /\ IF SliceOk(Top.code, Top.i + 1, Top.end)
       THEN /\ stack' = Append(stack,
                               Frame(LoopInterior(Top.code, Top.i, Top.end)))
            /\ outcome' = outcome
       ELSE /\ outcome' = "char boundary"
            /\ stack' = stack
    /\ steps' = steps + 1
    /\ UNCHANGED <<source, overflowChecks, memory, stdout, consumed, stdinEof,
                   visited>>

\* The condition fails: move past the loop.
LoopExit ==
    /\ AtWhile
    /\ InBounds(memory)
    /\ memory.data[memory.pointer] = 0
    /\ stack' = SkipLoop(stack)
    /\ steps' = steps + 1
    /\ UNCHANGED <<source, overflowChecks, memory, outcome, stdout, consumed,
                   stdinEof, visited>>

\* `_` arm: every other one-byte character, "]" included.
Other ==
    /\ AtMatch
    /\ SliceOk(Top.code, Top.i, Top.i + 1)
    /\ Scrutinee \notin {">", "<", "+", "-", ".", ",", "["}
    /\ Visit
    /\ stack' = Advance(stack)
    /\ steps' = steps + 1
    /\ UNCHANGED <<source, overflowChecks, memory, outcome, stdout, consumed,
                   stdinEof>>

\* &code[i..i+1] panics: i or i+1 is inside a character.
SlicePanic ==
    /\ AtMatch
    /\ ~SliceOk(Top.code, Top.i, Top.i + 1)
    /\ outcome' = "char boundary"
    /\ steps' = steps + 1
    /\ UNCHANGED <<source, overflowChecks, memory, stack, stdout, consumed,
                   stdinEof, visited>>

\* `while i < code.len()` ends: eval returns, to the `while` of the caller's
\* "[" arm or, from the outermost activation, to main.
Return ==
    /\ Running
    /\ ~Top.inWhile
    /\ Top.i >= Len(Top.code)
    /\ IF Depth = 1
       THEN outcome' = "returned" /\ stack' = stack
       ELSE outcome' = outcome /\ stack' = SubSeq(stack, 1, Depth - 1)
    /\ steps' = steps + 1
    /\ UNCHANGED <<source, overflowChecks, memory, stdout, consumed, stdinEof,
                   visited>>

Next ==
    \/ IncPointer
    \/ DecPointer
    \/ IncValue
    \/ DecValue
    \/ PrintChar
    \/ Scan
    \/ Bracket
    \/ WhilePanic
    \/ LoopBody
    \/ LoopExit
    \/ Other
    \/ SlicePanic
    \/ Return

Spec == Init /\ [][Next]_vars

\* The runs on source texts of one-byte characters only.
Ascii(s) == \A k \in 1..Len(s) : s[k] \notin {Lead, Cont}
SpecAscii == Init /\ Ascii(source) /\ [][Next]_vars

TypeOK ==
    /\ source \in Sources
    /\ overflowChecks \in BOOLEAN
    /\ memory.pointer \in Int
    /\ \A k \in DOMAIN memory.data : memory.data[k] \in 0..(CellMod - 1)
    /\ DOMAIN memory.data = 0..(TapeLen - 1)
    /\ outcome \in {"running", "returned"} \cup Panics
    /\ Depth >= 1
    /\ \A k \in 1..Len(stdout) : stdout[k] \in 0..(ByteMod - 1)
    /\ \A k \in 1..Len(consumed) : consumed[k] \in InputLines
    /\ steps \in 0..StepLimit

\* ----------------------------------------------------------------- claims
\* What the specification means by the matching bracket: scanning the bytes
\* after position `start` with a depth counter that is 1 after the opening
\* "[", the position of the first "]" that brings it to 0; -1 if there is none.
RECURSIVE MatchScan(_, _, _)
MatchScan(code, j, depth) ==
    IF j >= Len(code) THEN -1
    ELSE IF code[j + 1] = "[" THEN MatchScan(code, j + 1, depth + 1)
    ELSE IF code[j + 1] = "]"
         THEN IF depth = 1 THEN j ELSE MatchScan(code, j + 1, depth - 1)
    ELSE MatchScan(code, j + 1, depth)

MatchPos(code, start) == MatchScan(code, start + 1, 1)

TopNext == stack'[Len(stack')]
\* Lines read so far.
nread == Len(consumed)
Cell == memory.data[memory.pointer]
Ended == outcome # "running"
Panicked == outcome \in Panics
NoBrackets(s) == \A k \in 1..Len(s) : s[k] \notin {"[", "]"}

\* The condition check eval is at is the first one of its loop: nothing has
\* been matched on since the "[" itself.
FirstCheck ==
    /\ AtWhile
    /\ visited # <<>>
    /\ visited[Len(visited)] = <<Depth, Top.i>>

\* C1: as long as the run has not aborted, the cursor is inside the tape:
\* 0 <= pointer < length(cells), after every operation.
C1_CursorInRange == ~Panicked => InBounds(memory)

\* C2: ">" executed with the cursor at the last index fails with the
\* out-of-bounds error at that move and changes neither cursor nor cells.
C2_RightEdgeFails ==
    [][(Matches(">") /\ memory.pointer = TapeLen - 1)
         => (outcome' = "index out of bounds" /\ memory' = memory)]_vars

\* C3: "<" executed with the cursor at 0 fails at that move and changes
\* neither cursor nor cells.
C3_LeftEdgeFails ==
    [][(Matches("<") /\ memory.pointer = 0)
         => (outcome' \in Panics /\ memory' = memory)]_vars

\* C4: "+" on a cell holding 65535 yields 0 and "-" on a cell holding 0
\* yields 65535, without an error, and evaluation goes on with the next
\* character.
C4_CellsWrap ==
    [][/\ (Matches("+") /\ InBounds(memory) /\ Cell = CellMod - 1)
            => /\ outcome' = "running"
               /\ memory' = [memory EXCEPT !.data[memory.pointer] = 0]
               /\ stack' = Advance(stack)
       /\ (Matches("-") /\ InBounds(memory) /\ Cell = 0)
            => /\ outcome' = "running"
               /\ memory' = [memory EXCEPT !.data[memory.pointer] = CellMod - 1]
               /\ stack' = Advance(stack)]_vars

\* C5: a "[" with a matching "]" at position `end`, reached while the current
\* cell is 0, is skipped: the body is not evaluated, cursor, cells and output
\* do not change, no input is consumed, and the scan continues at end + 1.
C5_ZeroSkipsLoop ==
    [][/\ (Matches("[") /\ MatchPos(Top.code, Top.i) # -1
                        /\ InBounds(memory) /\ Cell = 0)
            => /\ outcome' = "running"
               /\ Len(stack') = Depth
               /\ UNCHANGED <<memory, stdout, nread>>
       /\ (FirstCheck /\ InBounds(memory) /\ Cell = 0)
            => /\ outcome' = "running"
               /\ Len(stack') = Depth
               /\ ~TopNext.inWhile
               /\ TopNext.i = MatchPos(Top.code, Top.i) + 1
               /\ UNCHANGED <<memory, stdout, nread, visited>>]_vars

\* C6: a loop is a pre-test while loop: a condition check that finds a
\* non-zero cell evaluates the interior strictly between "[" and its matching
\* "]" from its first character; the loop is left only at a check that finds
\* 0, and the scan then resumes right after the matching "]".
C6_PreTestLoop ==
    [][(AtWhile /\ InBounds(memory))
         => IF Cell # 0
            THEN /\ outcome' = "running"
                 /\ stack' = Append(stack,
                       Frame(Slice(Top.code, Top.i + 1,
                                   MatchPos(Top.code, Top.i))))
                 /\ memory' = memory
            ELSE /\ outcome' = "running"
                 /\ stack' = [stack EXCEPT
                       ![Depth].i = MatchPos(Top.code, Top.i) + 1,
                       ![Depth].inWhile = FALSE]
                 /\ memory' = memory]_vars

\* C7: at a "[" find_next returns, in the byte indexing eval slices with, the
\* position of the "]" at which the depth counter first returns to 0, and
\* None exactly when there is no such "]".
C7_FindNextIsMatch ==
    /\ \A k \in 1..Depth :
          stack[k].inWhile => stack[k].end = MatchPos(stack[k].code, stack[k].i)
    /\ (outcome = "mismatch brackets") => MatchPos(Top.code, Top.i) = -1

\* C8: a "[" without a matching "]" in the remaining text fails with the
\* mismatch error at that point, whatever the current cell holds, with no
\* change of cells, cursor, output or input; the source "[" alone fails
\* with the tape still all zero.
C8_UnmatchedFails ==
    /\ [][(Matches("[") /\ MatchPos(Top.code, Top.i) = -1)
            => /\ outcome' = "mismatch brackets"
               /\ UNCHANGED <<memory, stdout, nread, stack>>]_vars
    /\ []((source = <<"[">> /\ Ended)
            => (outcome = "mismatch brackets" /\ memory = Memory_new(TapeLen)))

\* C8 witness: the run has failed on an unmatched "[" with a non-zero
\* current cell.
C8_Witness ==
    /\ outcome = "mismatch brackets"
    /\ InBounds(memory)
    /\ Cell # 0
    /\ MatchPos(Top.code, Top.i) = -1

\* C9: a character that is none of the eight operation characters is inert:
\* matching on it changes neither cursor, cells nor output, reads no input,
\* raises no error, and moves the scan to the next character.
C9_OtherCharsInert ==
    [][(AtMatch /\ IsCharBoundary(Top.code, Top.i) /\ Scrutinee \notin OpBytes)
         => /\ outcome' = "running"
            /\ UNCHANGED <<memory, stdout, nread>>
            /\ Len(stack') = Depth
            /\ TopNext.i > Top.i
            /\ IsCharBoundary(Top.code, TopNext.i)]_vars

\* The positions 0, 1, ..., n-1 of the outermost activation, in order.
InOrder(n) == [k \in 1..n |-> <<1, k - 1>>]

\* C10 as stated, for the runs that end by returning or by "," finding no
\* input: a run of a bracket-free program ends by returning, having matched
\* on every position exactly once, in increasing order.
C10_VisitsAll ==
    (NoBrackets(source) /\ outcome \in {"returned", "no byte read"})
        => (outcome = "returned" /\ visited = InOrder(Len(source)))

\* C10 amended: a bracket-free program is matched on position by position, in
\* increasing order, none skipped and none twice; the run ends either by
\* returning after every position was matched on, or by the failure of the
\* operation at the last position matched on (or of the slicing of the next).
C10_VisitsInOrder ==
    NoBrackets(source) =>
        /\ Len(visited) <= Len(source)
        /\ visited = InOrder(Len(visited))
        /\ Depth = 1 /\ Top.i \in {Len(visited) - 1, Len(visited)}
        /\ (outcome = "returned" => visited = InOrder(Len(source)))
        /\ (outcome = "running" => Top.i = Len(visited))

\* C10 witness: a bracket-free program of several characters has returned.
C10_Witness ==
    /\ NoBrackets(source)
    /\ Len(source) = MaxLen
    /\ outcome = "returned"
    /\ visited = InOrder(Len(source))

\* C11: each "." executed on a cell appends exactly one character to the
\* output, the one whose code is the cell's value modulo 256, and changes
\* neither cursor nor cells; "++." on a fresh tape prints the one character 2.
C11_PrintLowByte ==
    /\ [][(Matches(".") /\ InBounds(memory))
            => /\ stdout' = Append(stdout, memory.data[memory.pointer] % 256)
               /\ memory' = memory
               /\ outcome' = "running"]_vars
    /\ []((source = <<"+", "+", ".">> /\ Ended)
            => (outcome = "returned" /\ stdout = <<2>>))

\* C11 witness: a cell holding more than one byte's worth has been printed
\* as its low 8 bits.
C11_Witness ==
    /\ InBounds(memory)
    /\ Cell >= 256
    /\ stdout = <<Cell % 256>>
    /\ outcome = "returned"

\* C12: each "," that gets a line consumes exactly that one line and sets the
\* current cell to the line's first byte, whatever the cell held; cursor and
\* other cells stay as they are.
C12_ScanFirstByte ==
    [][(Matches(",") /\ InBounds(memory) /\ consumed' # consumed)
         => /\ \E l \in InputLines :
                 /\ consumed' = Append(consumed, l)
                 /\ memory' = [memory EXCEPT !.data[memory.pointer] = l[1]]
            /\ outcome' = "running"
            /\ stdout' = stdout
            /\ stack' = Advance(stack)]_vars

\* C12 witness: "," has overwritten a non-zero cell with the first byte of the
\* one line read.
C12_Witness ==
    /\ source = <<"+", ",">>
    /\ outcome = "returned"
    /\ consumed = <<<<65, 66, 10>>>>
    /\ memory.data[0] = 65

\* C13: "," executed at the end of the input fails with the no-input error;
\* cell, cursor and output stay as they were, and nothing is executed after
\* it, at whatever depth of nesting the "," is.
C13_ScanAtEofFails ==
    /\ [][(Matches(",") /\ stdinEof')
            => /\ outcome' = "no byte read"
               /\ UNCHANGED <<memory, stdout, stack, consumed>>]_vars
    /\ [][outcome # "no byte read"]_vars

\* C13 witness: "," inside a loop body has met the end of the input, with the
\* current cell not 0.
C13_Witness ==
    /\ outcome = "no byte read"
    /\ Depth > 1
    /\ InBounds(memory)
    /\ Cell # 0

\* C14: once an error is raised, at any depth, nothing happens any more: no
\* loop checks its condition or runs its body again, no scan goes on, and
\* cursor, cells, output and outcome stay as the error left them.
C14_ErrorsAreFinal ==
    [][Panicked => UNCHANGED <<memory, stdout, stack, outcome, visited,
                               consumed>>]_vars

\* C14 witness: an error was raised inside a loop body while the cell the
\* enclosing loop tests is not 0.
C14_Witness ==
    /\ Panicked
    /\ Depth > 1
    /\ stack[Depth - 1].inWhile
    /\ InBounds(memory)
    /\ Cell # 0

\* C15: for all factors a and b up to MaxFactor the multiplication program
\* (a "+", then "[", ">", b "+", "<", "-", "]", then ">" and "."), run on a
\* fresh tape, never fails and ends within its step budget; when it has
\* returned, cell 0 is 0, cell 1 is a * b, the cursor is at 1 and the output
\* is the one character of code (a * b) mod 256.  With a = b = 8 the output
\* is the character of code 64.
C15_Multiplication ==
    /\ \A a, b \in 0..MaxFactor :
          (Len(source) = a + b + 7 /\ source = MulProgram(a, b)) =>
             /\ ~Panicked
             /\ outcome = "running" => steps < StepLimit /\ Len(stdout) <= 1
             /\ outcome = "returned" =>
                   /\ memory.data[0] = 0
                   /\ memory.data[1] = a * b
                   /\ memory.pointer = 1
                   /\ stdout = <<(a * b) % 256>>
    /\ (Len(source) = 23 /\ source = MulProgram(8, 8) /\ outcome = "returned")
          => stdout = <<64>>

\* The product 16 * 16 = 256 has been computed and printed as code 0.
C15_Witness ==
    /\ source = MulProgram(16, 16)
    /\ outcome = "returned"
    /\ memory.data[1] = 256
    /\ stdout = <<0>>

\* The run of 8 times 8 has returned.
C15_Eight == source = MulProgram(8, 8) /\ outcome = "returned"

\* ---- C16
\* The loop bodies that take one from the current cell and leave the cursor
\* in place: one "-" among characters that are no operations.
DecBodies ==
    {b \in Bodies(MaxItems) :
        /\ NoBrackets(b)
        /\ Cardinality({k \in 1..Len(b) : b[k] = "-"}) = 1}

\* The programs that set cell 0 to v and enter such a loop.
DecLoops(v) == {Rep("+", v) \o <<"[">> \o b \o <<"]">> : b \in DecBodies}

\* The evaluations of a body of the outermost loop that have begun.
BodyEvaluations ==
    Cardinality({k \in 1..Len(visited) : visited[k] = <<2, 0>>})

\* C16: a loop whose body takes one from the current cell per pass and
\* leaves the cursor in place, entered with the cell at v, ends after exactly
\* v evaluations of its body with the cell at 0 and nothing printed ("+[-]":
\* one pass); entered with the cell at 0 its body is never evaluated.  The
\* run never fails and is never cut short by the step budget.
C16_DecrementLoop ==
    \A v \in 0..MaxClear :
        source \in DecLoops(v) =>
           /\ ~Panicked
           /\ BodyEvaluations <= v
           /\ stdout = <<>>
           /\ outcome = "running" => steps < StepLimit
           /\ outcome = "returned" =>
                 /\ BodyEvaluations = v
                 /\ memory.pointer = 0
                 /\ memory.data[0] = 0

\* "+[-]" and the longest clearing program have returned.
C16_PlusClear == source = <<"+", "[", "-", "]">> /\ outcome = "returned"
C16_LongClear == source = ClearProgram(MaxClear) /\ outcome = "returned"

\* ---- C17
\* The brackets of s from position k on (1-based) are balanced, d of them
\* being open.
RECURSIVE BalancedFrom(_, _, _)
BalancedFrom(s, k, d) ==
    IF k > Len(s) THEN d = 0
    ELSE IF s[k] = "[" THEN BalancedFrom(s, k + 1, d + 1)
    ELSE IF s[k] = "]" THEN d > 0 /\ BalancedFrom(s, k + 1, d - 1)
    ELSE BalancedFrom(s, k + 1, d)

Balanced(s) == BalancedFrom(s, 1, 0)

\* C17: whatever the source, balanced or not, and at whatever depth, eval's
\* match is never on a "]": no step of the run is taken by an activation
\* whose match is on a "]", so no "]" is skipped as an ordinary character.
C17_NeverOnClose == [][~Matches("]")]_vars

\* The same for the balanced sources of one-byte characters only.
C17_BalancedAscii == (Balanced(source) /\ Ascii(source)) => ~Matches("]")

\* The same for the balanced sources.
C17_Balanced == Balanced(source) => ~Matches("]")

\* ---- C18
\* The positions of the "[" of s that no "]" closes.
UnmatchedOpens(s) ==
    {p \in 0..(Len(s) - 1) : s[p + 1] = "[" /\ MatchPos(s, p) = -1}

\* C18: the unmatched "[" is found lazily.  For a program whose only
\* unmatched "[" is at position p, the error is not raised before the first
\* match of the run; it is raised by the outermost activation when its match
\* is on position p, everything evaluated before having taken effect; and the
\* step that raises it leaves cursor, cells, output and input as they are.
C18_LazyDetection ==
    /\ [](\A p \in 0..(Len(source) - 1) :
            UnmatchedOpens(source) = {p} =>
               /\ visited = <<>> => outcome # "mismatch brackets"
               /\ outcome = "mismatch brackets" =>
                     /\ Depth = 1
                     /\ Top.i = p
                     /\ visited[Len(visited)] = <<1, p>>)
    /\ [][(outcome = "running" /\ outcome' = "mismatch brackets")
            => UNCHANGED <<memory, stdout, consumed>>]_vars

\* The error is raised only by a match on a "[" for which find_next finds
\* nothing in the text of its activation, and never before the first match.
C18_RaisedAtBracket ==
    outcome = "mismatch brackets" =>
        /\ visited # <<>>
        /\ visited[Len(visited)] = <<Depth, Top.i>>
        /\ Top.code[Top.i + 1] = "["
        /\ find_next(Top.code, Top.i) = None

\* The error was raised after output and a change of a cell.
C18_AfterEffects ==
    /\ outcome = "mismatch brackets"
    /\ Depth = 1
    /\ stdout # <<>>
    /\ memory.data[0] # 0

\* ---- C19
\* The flat evaluator the specification allows in place of the recursive
\* one: one index into the whole source, the pairs of brackets taken from
\* the bracket table MatchPos, the same fetch of the character to match on
\* and the same eight operations.  Its state is the
\* index i, the memory, the output, the number k of input lines it has read
\* and its outcome.

\* The bracket table read backwards: the "[" that the "]" at j closes.
OpenOf(code, j) ==
    CHOOSE p \in 0..j : code[p + 1] = "[" /\ MatchPos(code, p) = j

\* The input the flat evaluator is given: the lines the run has read, in the
\* same order, and after them what the run found there, the failure of the
\* read or the end of the input.
FlatInput(k) ==
    IF k < Len(consumed) THEN ReadLine(consumed[k + 1])
    ELSE IF outcome = "Unable to read" THEN ReadErr
    ELSE ReadEof

FlatStart ==
    [i |-> 0, memory |-> Memory_new(TapeLen), out |-> <<>>, k |-> 0,
     outcome |-> "running"]

\* The outcome of an operation on the memory, taken into the flat state.
FlatApply(f, r) ==
    IF r.panic # "" THEN [f EXCEPT !.outcome = r.panic]
    ELSE [f EXCEPT !.memory = r.memory, !.i = @ + 1]

\* One step of the flat evaluator at the character code[i], fetched as eval
\* fetches it, with &code[i..i+1].
FlatStep(code, f) ==
    LET c == code[f.i + 1]
        m == f.memory
    IN  CASE ~SliceOk(code, f.i, f.i + 1) ->
                [f EXCEPT !.outcome = "char boundary"]
          [] c = ">" -> FlatApply(f, inc_pointer(m))
          [] c = "<" -> FlatApply(f, dec_pointer(m))
          [] c = "+" -> FlatApply(f, inc_value(m))
          [] c = "-" -> FlatApply(f, dec_value(m))
          [] c = "." ->
                IF InBounds(m)
                THEN [f EXCEPT !.out = Append(@, PrintedChar(m)), !.i = @ + 1]
                ELSE [f EXCEPT !.outcome = "index out of bounds"]
          [] c = "," ->
                LET rd == FlatInput(f.k)
                IN  [FlatApply(f, scan(m, rd)) EXCEPT
                        !.k = IF rd.kind = "line" THEN @ + 1 ELSE @]
          [] c = "[" ->
                IF MatchPos(code, f.i) = -1
                THEN [f EXCEPT !.outcome = "mismatch brackets"]
                ELSE IF ~InBounds(m)
                THEN [f EXCEPT !.outcome = "index out of bounds"]
                ELSE IF m.data[m.pointer] = 0
                THEN [f EXCEPT !.i = MatchPos(code, f.i) + 1]
                ELSE [f EXCEPT !.i = @ + 1]
          [] c = "]" ->
                IF ~InBounds(m)
                THEN [f EXCEPT !.outcome = "index out of bounds"]
                ELSE IF m.data[m.pointer] # 0
                THEN [f EXCEPT !.i = OpenOf(code, f.i) + 1]
                ELSE [f EXCEPT !.i = @ + 1]
          [] OTHER -> [f EXCEPT !.i = @ + 1]

\* The flat evaluator run for at most `fuel` steps.
RECURSIVE FlatRun(_, _, _)
FlatRun(code, f, fuel) ==
    IF f.outcome # "running" THEN f
    ELSE IF f.i >= Len(code) THEN [f EXCEPT !.outcome = "returned"]
    ELSE IF fuel = 0 THEN f
    ELSE FlatRun(code, FlatStep(code, f), fuel - 1)

\* Where the flat evaluator is after as many steps as the run was allowed.
Flat == FlatRun(source, FlatStart, StepLimit)

\* C19: for every program with balanced brackets and every input, the
\* recursive evaluator and the flat one end alike: when the run of eval has
\* ended, the flat evaluator, given the same input, has ended within as many
\* steps with the same outcome, the same cursor and cells, the same output
\* and the same number of input lines read.
C19_FlatEquivalent ==
    (Balanced(source) /\ Ended) =>
        /\ Flat.outcome = outcome
        /\ Flat.memory = memory
        /\ Flat.out = stdout
        /\ Flat.k = Len(consumed)

\* A run with a loop body evaluated more than once, output and input has
\* ended as the flat evaluator does.
C19_Agreement ==
    /\ Balanced(source) /\ Ended
    /\ Flat.outcome = outcome /\ Flat.memory = memory
    /\ Flat.out = stdout /\ Flat.k = Len(consumed)
    /\ Cardinality({k \in 1..Len(visited) : visited[k][1] = 2}) >= 2

====
